---- MODULE Spec2Model ----
(***************************************************************************)
(* The block-graph editor of the visual programming front end:             *)
(* CanvasManager of frontend/static/js/canvas.js (viewport, block map,     *)
(* connections, auto-linking, undo/redo history, autosave timer, session   *)
(* load, export/import) and the near-duplicate CanvasManager of            *)
(* unnamed/part_002, which stores plain block objects in its map.          *)
(*                                                                         *)
(* JavaScript numbers are modelled as exact rationals [n, d] (d = 0 is     *)
(* undefined).  Strings of the form "block_<k>" and "canvas-block_<k>" are *)
(* modelled as [pfx, n].  A DOM element is the record of what the code     *)
(* reads from it: its id attribute, its own enumerable properties          *)
(* (blockData, and the x/y a drag writes on it), style.left/top and which  *)
(* listener set it carries.                                                *)
(***************************************************************************)
EXTENDS Integers, Sequences, FiniteSets, TLC

VARIABLES
    zoom, panX, panY,          \* viewport
    isDragging, dragData,      \* this.isDragging / this.dragData
    selectedBlock,             \* the selected element (its id attribute and blockData.id)
    blocks,                    \* this.blocks: insertion-ordered Map, key -> element
    connections,               \* this.connections
    blockCounter,
    history, historyIndex,
    currentSessionId, autoSaveTimeout,
    timers,                    \* pending setTimeout callbacks, oldest first: time left
    saveRequests,              \* POST /api/canvas/save requests awaiting their response
    loadPending,               \* the GET /api/canvas/load of init() awaits its response
    currentLanguage,           \* app.currentLanguage, the selected language
    dragClosures,              \* keys whose addBlockEventListeners closure has isDragging
    modal,                     \* the open blockProperties dialog and its onSave closure
    variant,                   \* the whole state of the editor of unnamed/part_002
    lastCall,                  \* history variable: the handler that ran last
    nPush,                     \* history variable: number of saveState calls so far
    undoRun,                   \* history variable: undo calls since the last other handler
    everIds,                   \* history variable: every key that was ever in this.blocks
    burst,                     \* history variable: the current burst of saveState calls
    nullSaves                  \* history variable: save requests sent with session_id null and answered with success

vars == <<zoom, panX, panY, isDragging, dragData, selectedBlock, blocks, connections,
          blockCounter, history, historyIndex, currentSessionId, autoSaveTimeout,
          timers, saveRequests, loadPending, currentLanguage, dragClosures, modal,
          variant, lastCall, nPush, undoRun, everIds, burst, nullSaves>>

-----------------------------------------------------------------------------
(* Bounds of the model *)

MaxBlocks == 4        \* addBlock is taken while blockCounter < MaxBlocks
MaxPushes == 4        \* saveState is taken while nPush < MaxPushes
MaxVariantPushes == 3 \* the same for the editor of unnamed/part_002
ProjectPushes == 3    \* the same where documents are imported
EditPushes == 2       \* the same where blocks are dragged and edited

(* Program constants *)

maxHistorySize == 50
autoSaveDelay == 1000
GridUnit == 20

-----------------------------------------------------------------------------
(* JavaScript numbers *)

RECURSIVE GCD(_, _)
GCD(a, b) == IF b = 0 THEN a ELSE GCD(b, a % b)

Abs(i) == IF i < 0 THEN -i ELSE i

Undef == [n |-> 0, d |-> 0]

Rat(n, d) ==
    LET g == GCD(Abs(n), Abs(d))
        s == IF d < 0 THEN -1 ELSE 1
    IN  [n |-> (s * n) \div g, d |-> (s * d) \div g]

Num(i) == [n |-> i, d |-> 1]

IsUndef(r) == r.d = 0

\* Arithmetic on an undefined operand gives NaN, which is modelled as Undef.
RAdd(a, b) == IF IsUndef(a) \/ IsUndef(b) THEN Undef ELSE Rat(a.n * b.d + b.n * a.d, a.d * b.d)
RSub(a, b) == IF IsUndef(a) \/ IsUndef(b) THEN Undef ELSE Rat(a.n * b.d - b.n * a.d, a.d * b.d)
RMul(a, b) == IF IsUndef(a) \/ IsUndef(b) THEN Undef ELSE Rat(a.n * b.n, a.d * b.d)
RDiv(a, b) == IF IsUndef(a) \/ IsUndef(b) \/ b.n = 0 THEN Undef ELSE Rat(a.n * b.d, a.d * b.n)
RLess(a, b) == a.n * b.d < b.n * a.d

\* Math.round: the nearest integer, halves towards +infinity.
MathRound(a) == IF IsUndef(a) THEN Undef ELSE Num((2 * a.n + a.d) \div (2 * a.d))

\* A faulty variant of `v || dflt` that takes the stored value as it is.
OrElseStored(v, dflt) == v

\* v || dflt for a number v: undefined, NaN and 0 are falsy.
OrElse(v, dflt) == IF IsUndef(v) \/ v.n = 0 THEN dflt ELSE v

\* Math.round(v / 20) * 20
SnapToGrid(v) == RMul(MathRound(RDiv(v, Num(GridUnit))), Num(GridUnit))

-----------------------------------------------------------------------------
(* Strings that name blocks *)

BlockId(k) == [pfx |-> "block_", n |-> k]          \* `block_${k}`
CanvasId(id) == [pfx |-> "canvas-" \o id.pfx, n |-> id.n]   \* `canvas-${id}`
EmptyString == [pfx |-> "", n |-> 0]               \* the id of an element that got none
UndefinedId == [pfx |-> "undefined", n |-> 0]
NoKey == [pfx |-> "null", n |-> 0]

\* parseInt(id.split('_')[1]) is a number exactly when the string has a "_<k>" part.
HasNumber(id) == id.pfx \in {"block_", "canvas-block_"}

-----------------------------------------------------------------------------
(* Block data, elements, snapshots *)

NoProperties == [k \in {} |-> ""]

\* The object literal addBlock builds.
NewBlock(id, type, x, y) ==
    [id |-> id, type |-> type, x |-> x, y |-> y, properties |-> NoProperties]

\* A blockData value: the block object `core`, inside Len(wraps) objects of
\* the shape {blockData: ..., x, y} (wraps[1] is the innermost).
PlainData(block) == [core |-> block, wraps |-> <<>>]

\* What the code reads as blockData.id, .type, .x, .y, .properties.
DataId(bd) == IF bd.wraps = <<>> THEN bd.core.id ELSE UndefinedId
DataType(bd) == IF bd.wraps = <<>> THEN bd.core.type ELSE "undefined"
DataX(bd) == IF bd.wraps = <<>> THEN bd.core.x ELSE bd.wraps[Len(bd.wraps)].x
DataY(bd) == IF bd.wraps = <<>> THEN bd.core.y ELSE bd.wraps[Len(bd.wraps)].y
DataProperties(bd) == IF bd.wraps = <<>> THEN bd.core.properties ELSE NoProperties

\* Utils.deepClone of an element: Object.keys gives its own enumerable
\* properties only, blockData and the x, y a drag wrote on the element.
deepCloneElement(el) == [core |-> el.bd.core, wraps |-> Append(el.bd.wraps, [x |-> el.ex, y |-> el.ey])]

\* Utils.deepClone(Array.from(this.blocks.entries()))
deepCloneEntries(blks) == [i \in 1..Len(blks) |-> [key |-> blks[i].key, val |-> deepCloneElement(blks[i].el)]]

\* The block-type catalogue of blockManager (served by the backend).
Types == {"start", "print", "end"}
TypeHasInputs(type) == type = "print"
getBlockDefinition(type) == type \in Types

\* The element createBlockElement builds, with blockData stored on it.
createBlockElement(block) ==
    [domId |-> CanvasId(block.id), bd |-> PlainData(block), ex |-> Undef, ey |-> Undef,
     left |-> block.x, top |-> block.y, kind |-> "add"]

Keys(blks) == {blks[i].key : i \in 1..Len(blks)}
IndexOf(blks, key) == CHOOSE i \in 1..Len(blks) : blks[i].key = key
Get(blks, key) == blks[IndexOf(blks, key)].el

\* Map.set: a present key keeps its place, a new key goes last.
MapSet(blks, key, el) ==
    IF key \in Keys(blks)
    THEN [blks EXCEPT ![IndexOf(blks, key)] = [key |-> key, el |-> el]]
    ELSE Append(blks, [key |-> key, el |-> el])

MapDelete(blks, key) == SelectSeq(blks, LAMBDA e : e.key /= key)

-----------------------------------------------------------------------------
(* Auto-linker *)

\* existingBlocks after the sort by parseInt(id.split('_')[1]), descending:
\* the candidates for existingBlocks[0].  The elements are sorted by their id
\* attribute.  With every id numbered the first is the highest number; with
\* none numbered every comparison is NaN, the sort is stable and the first
\* stays first; a mix makes the comparator inconsistent and the order
\* implementation-defined.
LastBlockCandidates(blks) ==
    LET numbered == {i \in 1..Len(blks) : HasNumber(blks[i].el.domId)}
    IN  IF numbered = 1..Len(blks)
        THEN {i \in numbered : \A j \in numbered : blks[j].el.domId.n <= blks[i].el.domId.n}
        ELSE IF numbered = {} THEN {1}
        ELSE 1..Len(blks)

\* An element has no `type` property: lastBlock.type is undefined.
ElementType(el) == "undefined"

\* A faulty variant of the linker that connects a new start block like any
\* other block.
autoConnectAnyType(blks, conns, newBlock, i) ==
    IF Len(blks) = 0 THEN conns
    ELSE IF ElementType(blks[i].el) = "end" THEN conns
    ELSE Append(conns, [from |-> blks[i].el.domId, to |-> newBlock.id])

\* The connections after autoConnectNewBlock(newBlock), lastBlock being blks[i].
autoConnectNewBlock(blks, conns, newBlock, i) ==
    IF Len(blks) = 0 THEN conns
    ELSE IF ElementType(blks[i].el) = "end" THEN conns
    ELSE IF newBlock.type = "start" /\ Len(blks) > 0 THEN conns
    ELSE Append(conns, [from |-> blks[i].el.domId, to |-> newBlock.id])

-----------------------------------------------------------------------------
(* History engine and autosave timer *)

\* A faulty variant of the snapshot that leaves the connections out.
SnapshotWithoutConnections(blks, conns, z, px, py) ==
    [blocks |-> deepCloneEntries(blks), connections |-> <<>>, zoom |-> z, panX |-> px, panY |-> py]

Snapshot(blks, conns, z, px, py) ==
    [blocks |-> deepCloneEntries(blks), connections |-> conns, zoom |-> z, panX |-> px, panY |-> py]

\* Faulty variants of PushHistory, to show what the history properties rule
\* out: one that keeps the redo branch, one that never drops the oldest entry.
PushHistoryKeepingRedo(h, idx, state) ==
    LET pushed == Append(h, state)
    IN  IF Len(pushed) > maxHistorySize
        THEN [history |-> Tail(pushed), historyIndex |-> idx]
        ELSE [history |-> pushed, historyIndex |-> idx + 1]

\* A faulty variant that, past the capacity, drops the entry before the
\* pushed one instead of the oldest.
PushHistoryEvictingLatest(h, idx, state) ==
    LET cut == IF idx < Len(h) - 1 THEN SubSeq(h, 1, idx + 1) ELSE h
        pushed == Append(cut, state)
    IN  IF Len(pushed) > maxHistorySize
        THEN [history |-> Append(SubSeq(cut, 1, Len(cut) - 1), state), historyIndex |-> idx]
        ELSE [history |-> pushed, historyIndex |-> idx + 1]

PushHistoryUncapped(h, idx, state) ==
    LET cut == IF idx < Len(h) - 1 THEN SubSeq(h, 1, idx + 1) ELSE h
    IN  [history |-> Append(cut, state), historyIndex |-> idx + 1]

\* saveState: history and historyIndex after pushing `state`.
PushHistory(h, idx, state) ==
    LET cut == IF idx < Len(h) - 1 THEN SubSeq(h, 1, idx + 1) ELSE h
        pushed == Append(cut, state)
    IN  IF Len(pushed) > maxHistorySize
        THEN [history |-> Tail(pushed), historyIndex |-> idx]
        ELSE [history |-> pushed, historyIndex |-> idx + 1]

\* A faulty variant of scheduleAutoSave that does not cancel the pending timer.
scheduleAutoSaveWithoutClear(handle, tms) ==
    [autoSaveTimeout |-> "set", timers |-> Append(tms, autoSaveDelay)]

\* scheduleAutoSave: the handle always names the timer created last, which is
\* pending exactly when it is the last of `timers` (equal delays fire in
\* creation order).
scheduleAutoSave(handle, tms) ==
    LET cleared == IF handle /= "null" /\ tms /= <<>> THEN SubSeq(tms, 1, Len(tms) - 1) ELSE tms
    IN  [autoSaveTimeout |-> "set", timers |-> Append(cleared, autoSaveDelay)]

\* History variable `burst`: a burst is a run of saveState calls, each less
\* than autoSaveDelay after the one before; `idle` is the time since the
\* last call (counted up to autoSaveDelay), `saves` the saveToJSON calls
\* made since the burst began.
CalledInBurst(b, times) ==
    IF b.calls = 0 \/ b.idle >= autoSaveDelay
    THEN [calls |-> times, saves |-> 0, idle |-> 0]
    ELSE [calls |-> b.calls + times, saves |-> b.saves, idle |-> 0]

\* saveState() called `times` times in one handler, the graph being the same.
RECURSIVE PushTimes(_, _, _, _)
PushTimes(h, idx, state, times) ==
    IF times = 0 THEN [history |-> h, historyIndex |-> idx]
    ELSE LET ph == PushHistory(h, idx, state)
         IN  PushTimes(ph.history, ph.historyIndex, state, times - 1)

saveStateTimes(times, blks, conns, z, px, py) ==
    LET ph == PushTimes(history, historyIndex, Snapshot(blks, conns, z, px, py), times)
        sch == scheduleAutoSave(autoSaveTimeout, timers)
    IN  /\ history' = ph.history
        /\ historyIndex' = ph.historyIndex
        /\ autoSaveTimeout' = IF times = 0 THEN autoSaveTimeout ELSE sch.autoSaveTimeout
        /\ timers' = IF times = 0 THEN timers ELSE sch.timers
        /\ nPush' = nPush + times
        /\ burst' = IF times = 0 THEN burst ELSE CalledInBurst(burst, times)

saveState(blks, conns, z, px, py) == saveStateTimes(1, blks, conns, z, px, py)

\* restoreState: the element built for one [id, blockData] entry of a snapshot.
RestoredElement(val) ==
    [domId |-> EmptyString, bd |-> val, ex |-> Undef, ey |-> Undef,
     left |-> OrElse(DataX(val), Num(0)), top |-> OrElse(DataY(val), Num(0)),
     kind |-> IF getBlockDefinition(DataType(val)) THEN "setup" ELSE "none"]

RestoredBlocks(state) ==
    [i \in 1..Len(state.blocks) |-> [key |-> state.blocks[i].key, el |-> RestoredElement(state.blocks[i].val)]]

-----------------------------------------------------------------------------
(* Initial state: the constructor has run, init() has sent the load request *)

NoDrag == [type |-> "null", startX |-> Undef, startY |-> Undef]
NoModal == [open |-> FALSE, key |-> NoKey, attached |-> FALSE]
NoSelection == [domId |-> NoKey, dataId |-> NoKey]
NoCall == [op |-> "new", arg |-> NoKey, ret |-> "undefined"]
NoBurst == [calls |-> 0, saves |-> 0, idle |-> 0]

\* The state of the editor of unnamed/part_002 after its constructor.
NoObject == 0

VariantInit ==
    [zoom |-> Num(1), panX |-> Num(0), panY |-> Num(0),
     objs |-> <<>>, blocks |-> <<>>, connections |-> <<>>, blockCounter |-> 0,
     history |-> <<>>, historyIndex |-> -1, pushes |-> 0,
     dragging |-> NoKey, modalOpen |-> FALSE, modalObject |-> NoObject, lastCall |-> NoCall]

Init ==
    /\ zoom = Num(1) /\ panX = Num(0) /\ panY = Num(0)
    /\ isDragging = FALSE /\ dragData = NoDrag
    /\ selectedBlock = NoSelection
    /\ blocks = <<>> /\ connections = <<>> /\ blockCounter = 0
    /\ history = <<>> /\ historyIndex = -1
    /\ currentSessionId = "null" /\ autoSaveTimeout = "null"
    /\ timers = <<>> /\ saveRequests = <<>> /\ loadPending = TRUE
    /\ currentLanguage = "null" /\ nullSaves = 0
    /\ dragClosures = {} /\ modal = NoModal
    /\ variant = VariantInit
    /\ lastCall = NoCall /\ nPush = 0 /\ undoRun = 0 /\ everIds = {} /\ burst = NoBurst

-----------------------------------------------------------------------------
(* Handlers of canvas.js.  `lim` bounds the number of saveState calls. *)

viewVars == <<zoom, panX, panY>>
panVars == <<isDragging, dragData>>
histVars == <<history, historyIndex, autoSaveTimeout, timers, nPush, burst>>
netVars == <<currentSessionId, saveRequests, loadPending, currentLanguage, nullSaves>>

\* History variable `lastCall`: the handler that ran last, its argument and
\* what it handed to its caller: "undefined" (a plain return), "id" (the new
\* block's id) or "throws" (an exception left it).
Call(op, arg) == [op |-> op, arg |-> arg, ret |-> "undefined"]
CallReturning(op, arg, ret) == [op |-> op, arg |-> arg, ret |-> ret]

\* The closure of an open dialog loses the map's element when that element
\* is replaced or removed.
Detach(m) == [m EXCEPT !.attached = FALSE]
DetachKey(m, key) == IF m.key = key THEN Detach(m) ELSE m
DetachAll(cs) == {Detach(c) : c \in cs}
DetachAllKey(cs, key) == {DetachKey(c, key) : c \in cs}

\* editBlockProperties(blockId) for a key of the map: the dialog it leaves open.
editBlockProperties(blks, m, blockId) ==
    IF blockId \notin Keys(blks) THEN m
    ELSE LET type == DataType(Get(blks, blockId).bd)
         IN  IF ~getBlockDefinition(type) \/ ~TypeHasInputs(type) THEN m
             ELSE [open |-> TRUE, key |-> blockId, attached |-> TRUE]

\* addBlock(type, position, definition), dropped from the palette.
AddBlock(lim, type, position) ==
    /\ blockCounter < MaxBlocks
    /\ nPush < lim
    /\ LET blockId == BlockId(blockCounter + 1)
           block == NewBlock(blockId, type, SnapToGrid(position.x), SnapToGrid(position.y))
       IN  \E i \in (IF blocks = <<>> THEN {0} ELSE LastBlockCandidates(blocks)) :
             LET conns == autoConnectNewBlock(blocks, connections, block, i)
                 blks == MapSet(blocks, blockId, createBlockElement(block))
             IN  /\ blockCounter' = blockCounter + 1
                 /\ connections' = conns
                 /\ blocks' = blks
                 /\ saveState(blks, conns, zoom, panX, panY)
                 /\ modal' = IF TypeHasInputs(type)
                             THEN editBlockProperties(blks, DetachKey(modal, blockId), blockId)
                             ELSE DetachKey(modal, blockId)
                 /\ dragClosures' = DetachAllKey(dragClosures, blockId)
                 /\ everIds' = everIds \cup {blockId}
                 /\ lastCall' = CallReturning("addBlock", blockId, "id")
    /\ undoRun' = 0
    /\ UNCHANGED <<viewVars, panVars, selectedBlock, netVars, variant>>

\* A faulty variant of the filter that keeps the connections into the block.
removeConnectionsFromOnly(conns, blockId) ==
    SelectSeq(conns, LAMBDA c : c.from /= blockId)

\* this.connections.filter(conn => conn.from !== blockId && conn.to !== blockId)
removeConnections(conns, blockId) ==
    SelectSeq(conns, LAMBDA c : c.from /= blockId /\ c.to /= blockId)

\* A faulty variant of removeBlock without the early return for an unknown id.
RemoveBlockWithoutGuard(lim, blockId) ==
    /\ lastCall' = Call("removeBlock", blockId)
    /\ undoRun' = 0
    /\ nPush < lim
    /\ LET blks == MapDelete(blocks, blockId)
           conns == removeConnections(connections, blockId)
       IN  /\ blocks' = blks
           /\ connections' = conns
           /\ selectedBlock' = IF selectedBlock /= NoSelection /\ selectedBlock.dataId = blockId
                               THEN NoSelection ELSE selectedBlock
           /\ saveState(blks, conns, zoom, panX, panY)
           /\ modal' = DetachKey(modal, blockId)
           /\ dragClosures' = DetachAllKey(dragClosures, blockId)
    /\ UNCHANGED <<viewVars, panVars, blockCounter, netVars, variant, everIds>>

\* removeBlock(blockId): context menu, Delete key, delete button.  Its last
\* statement, Utils.camelToTitle(blockType), throws for a block whose
\* blockData has no type, after the removal and the saveState.
RemoveBlock(lim, blockId) ==
    /\ lastCall' = CallReturning("removeBlock", blockId,
                                 IF blockId \in Keys(blocks) /\ DataType(Get(blocks, blockId).bd) = "undefined"
                                 THEN "throws" ELSE "undefined")
    /\ undoRun' = 0
    /\ IF blockId \notin Keys(blocks)
       THEN UNCHANGED <<blocks, connections, selectedBlock, histVars, modal, dragClosures>>
       ELSE /\ nPush < lim
            /\ LET blks == MapDelete(blocks, blockId)
                   conns == removeConnections(connections, blockId)
               IN  /\ blocks' = blks
                   /\ connections' = conns
                   /\ selectedBlock' = IF selectedBlock /= NoSelection /\ selectedBlock.dataId = blockId
                                       THEN NoSelection ELSE selectedBlock
                   /\ saveState(blks, conns, zoom, panX, panY)
                   /\ modal' = DetachKey(modal, blockId)
                   /\ dragClosures' = DetachAllKey(dragClosures, blockId)
    /\ UNCHANGED <<viewVars, panVars, blockCounter, netVars, variant, everIds>>

\* onKeyDown for Delete or Backspace: removeBlock(this.selectedBlock.id),
\* where selectedBlock is the selected element and .id its id attribute.
DeleteKey(lim) ==
    /\ selectedBlock /= NoSelection
    /\ RemoveBlock(lim, selectedBlock.domId)

\* restoreState(state)
restoreState(state) ==
    /\ blocks' = RestoredBlocks(state)
    /\ connections' = state.connections
    /\ zoom' = OrElse(state.zoom, Num(1))
    /\ panX' = OrElse(state.panX, Num(0))
    /\ panY' = OrElse(state.panY, Num(0))
    /\ modal' = Detach(modal)
    /\ dragClosures' = DetachAll(dragClosures)

CountUndo == IF undoRun < MaxPushes THEN undoRun + 1 ELSE undoRun

\* A faulty variant of undo that, with the cursor on the first entry,
\* restores that entry again.
UndoRestoringFirst ==
    /\ lastCall' = Call("undo", NoKey)
    /\ undoRun' = CountUndo
    /\ IF historyIndex > 0
       THEN /\ historyIndex' = historyIndex - 1
            /\ restoreState(history[historyIndex])
       ELSE IF historyIndex = 0
            THEN UNCHANGED historyIndex /\ restoreState(history[1])
            ELSE UNCHANGED <<historyIndex, blocks, connections, viewVars, modal, dragClosures>>
    /\ UNCHANGED <<panVars, selectedBlock, blockCounter, history, autoSaveTimeout, timers, nPush,
                   burst, netVars, variant, everIds>>

Undo ==
    /\ lastCall' = Call("undo", NoKey)
    /\ undoRun' = CountUndo
    /\ IF historyIndex > 0
       THEN /\ historyIndex' = historyIndex - 1
            /\ restoreState(history[historyIndex])
       ELSE UNCHANGED <<historyIndex, blocks, connections, viewVars, modal, dragClosures>>
    /\ UNCHANGED <<panVars, selectedBlock, blockCounter, history, autoSaveTimeout, timers, nPush,
                   burst, netVars, variant, everIds>>

Redo ==
    /\ lastCall' = Call("redo", NoKey)
    /\ undoRun' = 0
    /\ IF historyIndex < Len(history) - 1
       THEN /\ historyIndex' = historyIndex + 1
            /\ restoreState(history[historyIndex + 2])
       ELSE UNCHANGED <<historyIndex, blocks, connections, viewVars, modal, dragClosures>>
    /\ UNCHANGED <<panVars, selectedBlock, blockCounter, history, autoSaveTimeout, timers, nPush,
                   burst, netVars, variant, everIds>>

\* clear()
Clear(lim) ==
    /\ nPush < lim
    /\ blocks' = <<>>
    /\ connections' = <<>>
    /\ selectedBlock' = NoSelection
    /\ saveState(<<>>, <<>>, zoom, panX, panY)
    /\ modal' = Detach(modal)
    /\ dragClosures' = DetachAll(dragClosures)
    /\ lastCall' = Call("clear", NoKey)
    /\ undoRun' = 0
    /\ UNCHANGED <<viewVars, panVars, blockCounter, netVars, variant, everIds>>

\* A direct call of saveState().
SaveState(lim) ==
    /\ nPush < lim
    /\ saveState(blocks, connections, zoom, panX, panY)
    /\ lastCall' = Call("saveState", NoKey)
    /\ undoRun' = 0
    /\ UNCHANGED <<viewVars, panVars, selectedBlock, blocks, connections, blockCounter, netVars,
                   dragClosures, modal, variant, everIds>>

-----------------------------------------------------------------------------
(* Pointer handlers *)

\* mousedown on a block built by createBlockElement (addBlockEventListeners):
\* selectBlock(blockId) finds the element by its id attribute and selects the
\* map's element; the closure's isDragging becomes true.
\* mousedown on a block built by createBlockFromData or restoreState with a
\* known type (setupBlockEventListeners): selectBlock(blockElement) deselects
\* and finds no element named `canvas-${blockElement}`.
BlockMouseDown(key) ==
    /\ key \in Keys(blocks)
    /\ LET el == Get(blocks, key)
       IN  /\ el.kind /= "none"
           /\ IF el.kind = "add"
              THEN /\ selectedBlock' = [domId |-> el.domId, dataId |-> DataId(el.bd)]
                   /\ dragClosures' = dragClosures \cup {[open |-> TRUE, key |-> key, attached |-> TRUE]}
                   /\ UNCHANGED panVars
              ELSE /\ selectedBlock' = NoSelection
                   /\ isDragging' = TRUE
                   /\ dragData' = [type |-> "block", startX |-> Undef, startY |-> Undef]
                   /\ UNCHANGED dragClosures
    /\ lastCall' = Call("blockMouseDown", key)
    /\ undoRun' = 0
    /\ UNCHANGED <<viewVars, blocks, connections, blockCounter, histVars, netVars, modal, variant, everIds>>

\* onCanvasMouseDown on the canvas background
CanvasMouseDown(client) ==
    /\ isDragging' = TRUE
    /\ dragData' = [type |-> "pan", startX |-> RSub(client.x, panX), startY |-> RSub(client.y, panY)]
    /\ selectedBlock' = NoSelection
    /\ lastCall' = Call("canvasMouseDown", NoKey)
    /\ undoRun' = 0
    /\ UNCHANGED <<viewVars, blocks, connections, blockCounter, histVars, netVars, dragClosures,
                   modal, variant, everIds>>

\* The mousemove listener of one dragging closure: style.left/top of its own
\* element, and x, y written on whatever element the map holds under its key.
MovedElement(el, c, sx, sy) ==
    IF c.attached
    THEN [el EXCEPT !.ex = sx, !.ey = sy, !.left = sx, !.top = sy]
    ELSE [el EXCEPT !.ex = sx, !.ey = sy]

RECURSIVE MoveAll(_, _, _, _)
MoveAll(blks, cs, sx, sy) ==
    IF cs = {} THEN blks
    ELSE LET c == CHOOSE d \in cs : TRUE
             next == IF c.key \in Keys(blks)
                     THEN MapSet(blks, c.key, MovedElement(Get(blks, c.key), c, sx, sy))
                     ELSE blks
         IN  MoveAll(next, cs \ {c}, sx, sy)

MaxPan == 60          \* a pan is taken while |panX|, |panY| <= MaxPan

PanWithin(v) == Abs(v.n) <= MaxPan * v.d

\* mousemove: onCanvasMouseMove pans, the document listeners of the dragging
\* closures move their blocks; neither acts on the drag that
\* setupBlockEventListeners began (dragData without a type).  `position` is the canvas position the closure
\* computes from the pointer and its grab offset, before snapping.
MouseMove(client, position) ==
    /\ isDragging \/ dragClosures /= {}
    /\ IF isDragging /\ dragData.type = "pan"
       THEN /\ panX' = RSub(client.x, dragData.startX)
            /\ panY' = RSub(client.y, dragData.startY)
            /\ PanWithin(panX') /\ PanWithin(panY')
       ELSE UNCHANGED <<panX, panY>>
    /\ blocks' = MoveAll(blocks, dragClosures, SnapToGrid(position.x), SnapToGrid(position.y))
    /\ lastCall' = Call("mouseMove", NoKey)
    /\ undoRun' = 0
    /\ UNCHANGED <<zoom, panVars, selectedBlock, connections, blockCounter, histVars, netVars,
                   dragClosures, modal, variant, everIds>>

\* mouseup: onCanvasMouseUp ends a pan and nothing else; every dragging
\* closure calls saveState().
MouseUp(lim) ==
    /\ isDragging \/ dragClosures /= {}
    /\ nPush + Cardinality(dragClosures) <= lim
    /\ IF isDragging /\ dragData.type = "pan"
       THEN isDragging' = FALSE /\ dragData' = NoDrag
       ELSE UNCHANGED panVars
    /\ dragClosures' = {}
    /\ saveStateTimes(Cardinality(dragClosures), blocks, connections, zoom, panX, panY)
    /\ lastCall' = Call("mouseUp", NoKey)
    /\ undoRun' = 0
    /\ UNCHANGED <<viewVars, selectedBlock, blocks, connections, blockCounter, netVars, modal, variant, everIds>>

-----------------------------------------------------------------------------
(* Zoom buttons *)

MaxZoomSteps == 1     \* zoomIn/zoomOut are taken while zoom stays within 1.2^(+-MaxZoomSteps)

RECURSIVE ZoomPower(_)
ZoomPower(k) == IF k = 0 THEN Num(1)
                ELSE IF k > 0 THEN RMul(ZoomPower(k - 1), Rat(6, 5))
                ELSE RDiv(ZoomPower(k + 1), Rat(6, 5))
ZoomValues == {ZoomPower(k) : k \in (0 - MaxZoomSteps)..MaxZoomSteps}

RMin(a, b) == IF RLess(a, b) THEN a ELSE b
RMax(a, b) == IF RLess(a, b) THEN b ELSE a

zoomIn(z) == RMin(Num(3), RMul(z, Rat(6, 5)))
zoomOut(z) == RMax(Rat(1, 10), RDiv(z, Rat(6, 5)))

SetZoom(op, z) ==
    /\ z \in ZoomValues
    /\ zoom' = z
    /\ lastCall' = Call(op, NoKey)
    /\ undoRun' = 0
    /\ UNCHANGED <<panX, panY, panVars, selectedBlock, blocks, connections, blockCounter, histVars,
                   netVars, dragClosures, modal, variant, everIds>>

ZoomIn == SetZoom("zoomIn", zoomIn(zoom))
ZoomOut == SetZoom("zoomOut", zoomOut(zoom))

-----------------------------------------------------------------------------
(* Properties dialog *)

PropertySets == {[label |-> "a"], [label |-> "b", value |-> "1"]}

\* A faulty variant of the merge that keeps only the saved keys.
MergePropertiesReplacing(old, new) == new

\* { ...block.properties, ...newProperties }
MergeProperties(old, new) ==
    [k \in DOMAIN old \cup DOMAIN new |-> IF k \in DOMAIN new THEN new[k] ELSE old[k]]

\* dblclick or the context menu's Edit Properties
OpenProperties(key) ==
    /\ key \in Keys(blocks)
    /\ Get(blocks, key).kind /= "none"
    /\ modal' = editBlockProperties(blocks, modal, key)
    /\ lastCall' = Call("editBlockProperties", key)
    /\ undoRun' = 0
    /\ UNCHANGED <<viewVars, panVars, selectedBlock, blocks, connections, blockCounter, histVars,
                   netVars, dragClosures, variant, everIds>>

\* onSave(newProperties): the closure's block object gets the merged
\* properties; it is the map's block only while the closure is attached.
SavedBlocks(blks, m, newProperties) ==
    IF m.attached /\ m.key \in Keys(blks)
    THEN LET el == Get(blks, m.key)
         IN  MapSet(blks, m.key,
                    [el EXCEPT !.bd.core.properties = MergeProperties(el.bd.core.properties, newProperties)])
    ELSE blks

ModalSave(lim, newProperties) ==
    /\ modal.open
    /\ nPush < lim
    /\ LET blks == SavedBlocks(blocks, modal, newProperties)
       IN  /\ blocks' = blks
           /\ saveState(blks, connections, zoom, panX, panY)
    /\ modal' = NoModal
    /\ lastCall' = Call("onSave", modal.key)
    /\ undoRun' = 0
    /\ UNCHANGED <<viewVars, panVars, selectedBlock, connections, blockCounter, netVars,
                   dragClosures, variant, everIds>>

ModalClose ==
    /\ modal.open
    /\ modal' = NoModal
    /\ lastCall' = Call("modalClose", NoKey)
    /\ undoRun' = 0
    /\ UNCHANGED <<viewVars, panVars, selectedBlock, blocks, connections, blockCounter, histVars,
                   netVars, dragClosures, variant, everIds>>

\* editBlockProperties(blockId) called with any string.
EditBlockProperties(blockId) ==
    /\ modal' = editBlockProperties(blocks, modal, blockId)
    /\ lastCall' = Call("editBlockProperties", blockId)
    /\ undoRun' = 0
    /\ UNCHANGED <<viewVars, panVars, selectedBlock, blocks, connections, blockCounter, histVars,
                   netVars, dragClosures, variant, everIds>>

\* duplicateBlock(blockId): addBlock(original.type, original position + 40,
\* original.definition), and after it the copy of the properties.  The
\* blockData of a block made by createBlockElement carries its definition,
\* that of createBlockFromData none.  For a blockData without a type
\* addBlock throws in createBlockElement, after ++blockCounter and
\* autoConnectNewBlock.
DuplicateBlock(lim, blockId) ==
    /\ undoRun' = 0
    /\ IF blockId \notin Keys(blocks)
       THEN /\ lastCall' = Call("duplicateBlock", blockId)
            /\ UNCHANGED <<blocks, connections, blockCounter, histVars, modal, dragClosures, everIds>>
       ELSE /\ blockCounter < MaxBlocks
            /\ LET original == Get(blocks, blockId)
                   type == DataType(original.bd)
                   newBlockId == BlockId(blockCounter + 1)
                   block == NewBlock(newBlockId, type,
                                     SnapToGrid(RAdd(DataX(original.bd), Num(40))),
                                     SnapToGrid(RAdd(DataY(original.bd), Num(40))))
                   copy == [block EXCEPT !.properties = DataProperties(original.bd)]
               IN  \E i \in LastBlockCandidates(blocks) :
                     LET conns == autoConnectNewBlock(blocks, connections, block, i)
                         blks == MapSet(blocks, newBlockId, createBlockElement(block))
                     IN  /\ blockCounter' = blockCounter + 1
                         /\ connections' = conns
                         /\ IF type = "undefined"
                            THEN /\ lastCall' = CallReturning("duplicateBlock", blockId, "throws")
                                 /\ UNCHANGED <<blocks, histVars, modal, dragClosures, everIds>>
                            ELSE /\ nPush < lim
                                 /\ blocks' = MapSet(blocks, newBlockId, createBlockElement(copy))
                                 /\ saveState(blks, conns, zoom, panX, panY)
                                 /\ modal' = IF original.kind = "add" /\ TypeHasInputs(type)
                                             THEN editBlockProperties(blks, DetachKey(modal, newBlockId), newBlockId)
                                             ELSE DetachKey(modal, newBlockId)
                                 /\ dragClosures' = DetachAllKey(dragClosures, newBlockId)
                                 /\ everIds' = everIds \cup {newBlockId}
                                 /\ lastCall' = Call("duplicateBlock", blockId)
    /\ UNCHANGED <<viewVars, panVars, selectedBlock, netVars, variant>>

ResetZoom ==
    /\ zoom' = Num(1) /\ panX' = Num(0) /\ panY' = Num(0)
    /\ lastCall' = Call("resetZoom", NoKey)
    /\ undoRun' = 0
    /\ UNCHANGED <<panVars, selectedBlock, blocks, connections, blockCounter, histVars,
                   netVars, dragClosures, modal, variant, everIds>>

-----------------------------------------------------------------------------
(* Mouse wheel *)

MaxWheelSteps == 1    \* a wheel step is taken while zoom stays within 0.9^a * 1.1^b (a, b <= MaxWheelSteps) of a button value or a limit

RECURSIVE RPower(_, _)
RPower(r, k) == IF k = 0 THEN Num(1) ELSE RMul(RPower(r, k - 1), r)

WheelValues ==
    {RMul(z, RMul(RPower(Rat(9, 10), a), RPower(Rat(11, 10), b))) :
        z \in ZoomValues \cup {Num(3), Rat(1, 10)}, a \in 0..MaxWheelSteps, b \in 0..MaxWheelSteps}

\* Math.max(0.1, Math.min(3, this.zoom * delta)), delta = deltaY > 0 ? 0.9 : 1.1
WheelZoom(z, deltaY) ==
    RMax(Rat(1, 10), RMin(Num(3), RMul(z, IF deltaY > 0 THEN Rat(9, 10) ELSE Rat(11, 10))))

\* onDrop: the canvas coordinate of a screen coordinate, (p - pan) / zoom
ScreenToCanvas(p, pan, z) == RDiv(RSub(p, pan), z)

\* applyTransform: translate(pan) scale(zoom) puts canvas coordinate c at
\* c * zoom + pan on the screen
CanvasToScreen(c, pan, z) == RAdd(RMul(c, z), pan)

\* A faulty variant of the wheel's pan that leaves the pan as it is.
WheelPanUnadjusted(mouse, pan, z, newZoom) == pan

\* mouse - ((mouse - pan) / zoom) * newZoom
WheelPan(mouse, pan, z, newZoom) == RSub(mouse, RMul(RDiv(RSub(mouse, pan), z), newZoom))

\* onCanvasWheel(e): `mouse` is the pointer relative to the canvas rectangle.
Wheel(deltaY, mouse) ==
    /\ LET newZoom == WheelZoom(zoom, deltaY)
       IN  /\ newZoom \in WheelValues
           /\ IF newZoom /= zoom
              THEN /\ zoom' = newZoom
                   /\ panX' = WheelPan(mouse.x, panX, zoom, newZoom)
                   /\ panY' = WheelPan(mouse.y, panY, zoom, newZoom)
                   /\ PanWithin(panX') /\ PanWithin(panY')
              ELSE UNCHANGED viewVars
    /\ lastCall' = Call("onCanvasWheel", mouse)
    /\ undoRun' = 0
    /\ UNCHANGED <<panVars, selectedBlock, blocks, connections, blockCounter, histVars,
                   netVars, dragClosures, modal, variant, everIds>>

-----------------------------------------------------------------------------
(* Layout: canvasContent carries translate(pan) scale(zoom) and a block is   *)
(* placed in it at style.left/top, so the block's client rectangle starts   *)
(* zoom * left to the right of canvasContent's.                             *)

RectOffset(z, styleValue) == RMul(z, OrElse(styleValue, Num(0)))

\* (rect.left - canvasRect.left - this.panX) / this.zoom
ExportedCoordinate(z, pan, styleValue) == RDiv(RSub(RectOffset(z, styleValue), pan), z)

\* The block object export() and saveToJSON() build for one element.
ExportedBlock(el, z, px, py) ==
    [id |-> DataId(el.bd), type |-> DataType(el.bd),
     x |-> ExportedCoordinate(z, px, el.left), y |-> ExportedCoordinate(z, py, el.top),
     properties |-> DataProperties(el.bd)]

ExportedBlocks(blks, z, px, py) == [i \in 1..Len(blks) |-> ExportedBlock(blks[i].el, z, px, py)]

-----------------------------------------------------------------------------
(* Autosave timer and session requests *)

TickUnit == 400       \* time advances by at most TickUnit ms in one step

Min(a, b) == IF a < b THEN a ELSE b

TimerDue == timers /= <<>> /\ timers[1] = 0

\* Time passes, up to the next timer's due time.
Tick ==
    /\ ~TimerDue
    /\ timers /= <<>> \/ burst.idle < autoSaveDelay
    /\ LET d1 == IF timers /= <<>> THEN Min(TickUnit, timers[1]) ELSE TickUnit
           d == IF burst.idle < autoSaveDelay THEN Min(d1, autoSaveDelay - burst.idle) ELSE d1
       IN  /\ timers' = [i \in 1..Len(timers) |-> timers[i] - d]
           /\ burst' = [burst EXCEPT !.idle = Min(autoSaveDelay, burst.idle + d)]
    /\ lastCall' = Call("tick", NoKey)
    /\ undoRun' = 0
    /\ UNCHANGED <<viewVars, panVars, selectedBlock, blocks, connections, blockCounter, history,
                   historyIndex, autoSaveTimeout, nPush, netVars, dragClosures, modal,
                   variant, everIds>>

\* saveToJSON() up to its fetch: the request it sends.
SaveRequest(sid, blks, conns, z, px, py) ==
    [session_id |-> sid, blocks |-> ExportedBlocks(blks, z, px, py), connections |-> conns,
     zoom |-> z, panX |-> px, panY |-> py]

\* The autosave timer's callback: saveToJSON()
TimerFire ==
    /\ TimerDue
    /\ timers' = Tail(timers)
    /\ saveRequests' = Append(saveRequests, SaveRequest(currentSessionId, blocks, connections, zoom, panX, panY))
    /\ burst' = [burst EXCEPT !.saves = burst.saves + 1]
    /\ lastCall' = Call("saveToJSON", NoKey)
    /\ undoRun' = 0
    /\ UNCHANGED <<viewVars, panVars, selectedBlock, blocks, connections, blockCounter, history,
                   historyIndex, autoSaveTimeout, nPush, currentSessionId, loadPending,
                   currentLanguage, nullSaves, dragClosures, modal, variant, everIds>>

NewSessionIds == {"s1", "s2"}

\* The rest of saveToJSON(): the response to request i.  `result` is "fail"
\* (HTTP error, network error, success: false) or the session_id returned.
SaveResponse(i, result) ==
    /\ i \in 1..Len(saveRequests)
    /\ result = "fail" \/ (IF saveRequests[i].session_id = "null" THEN result \in NewSessionIds
                           ELSE result = saveRequests[i].session_id)
    /\ saveRequests' = [j \in 1..(Len(saveRequests) - 1) |-> IF j < i THEN saveRequests[j] ELSE saveRequests[j + 1]]
    /\ currentSessionId' = IF result = "fail" THEN currentSessionId ELSE result
    /\ nullSaves' = IF result /= "fail" /\ saveRequests[i].session_id = "null" THEN nullSaves + 1 ELSE nullSaves
    /\ lastCall' = Call("saveResponse", [pfx |-> result, n |-> 0])
    /\ undoRun' = 0
    /\ UNCHANGED <<viewVars, panVars, selectedBlock, blocks, connections, blockCounter, histVars,
                   loadPending, currentLanguage, dragClosures, modal, variant, everIds>>

-----------------------------------------------------------------------------
(* Session load *)

\* createBlockFromData(blockData): no id attribute, blockData without x, y.
createBlockFromData(blockData) ==
    [domId |-> EmptyString,
     bd |-> PlainData([id |-> blockData.id, type |-> blockData.type, x |-> Undef, y |-> Undef,
                       properties |-> blockData.properties]),
     ex |-> Undef, ey |-> Undef, left |-> blockData.x, top |-> blockData.y, kind |-> "setup"]

\* The forEach of restoreFromJSONState: a block of unknown type is skipped.
RECURSIVE LoadedBlocks(_, _)
LoadedBlocks(blks, docBlocks) ==
    IF docBlocks = <<>> THEN blks
    ELSE LET b == Head(docBlocks)
         IN  LoadedBlocks(IF getBlockDefinition(b.type) THEN MapSet(blks, b.id, createBlockFromData(b)) ELSE blks,
                          Tail(docBlocks))

DocBlock(k, type, x, y) == [id |-> BlockId(k), type |-> type, x |-> Num(x), y |-> Num(y), properties |-> NoProperties]

\* Session documents the backend may hold.
SessionDocs ==
    { [session_id |-> "s1",
       blocks |-> <<DocBlock(1, "start", 0, 0), DocBlock(2, "print", 20, 60)>>,
       connections |-> <<[from |-> BlockId(1), to |-> BlockId(2)]>>,
       zoom |-> Num(1), panX |-> Num(0), panY |-> Num(0)],
      [session_id |-> "s2",
       blocks |-> <<DocBlock(1, "start", 0, 0), DocBlock(2, "mystery", 20, 60)>>,
       connections |-> <<[from |-> BlockId(1), to |-> BlockId(2)]>>,
       zoom |-> Undef, panX |-> Num(40), panY |-> Num(0)] }

\* Documents a project file or the backend may hold besides: one whose
\* connections name a block it does not hold and whose zoom is 5, and one
\* whose second block has no type.
Documents ==
    SessionDocs \cup
    { [session_id |-> "s3",
       blocks |-> <<DocBlock(1, "start", 0, 0), DocBlock(2, "print", 20, 60)>>,
       connections |-> <<[from |-> BlockId(1), to |-> BlockId(2)], [from |-> BlockId(2), to |-> BlockId(4)]>>,
       zoom |-> Num(5), panX |-> Num(0), panY |-> Num(0)],
      [session_id |-> "s4",
       blocks |-> <<DocBlock(1, "start", 0, 0), DocBlock(2, "undefined", 20, 60), DocBlock(3, "end", 20, 120)>>,
       connections |-> <<[from |-> BlockId(1), to |-> BlockId(3)]>>,
       zoom |-> Num(1), panX |-> Num(0), panY |-> Num(0)] }

\* The name a call on a document is recorded under in `lastCall`.
DocumentName(data) == IF "session_id" \in DOMAIN data THEN [pfx |-> data.session_id, n |-> 0] ELSE NoKey

\* A faulty variant of the load response that empties the canvas whatever
\* the outcome.
LoadResponseClearing(outcome, doc) ==
    /\ loadPending
    /\ loadPending' = FALSE
    /\ blocks' = <<>> /\ connections' = <<>> /\ blockCounter' = 0
    /\ lastCall' = Call("loadResponse", NoKey)
    /\ undoRun' = 0
    /\ UNCHANGED <<viewVars, panVars, selectedBlock, histVars, currentSessionId, saveRequests,
                   currentLanguage, nullSaves, modal, dragClosures, variant, everIds>>

\* The response to the load request of init().  `outcome` is "notFound"
\* (404), "error" (another failure), "message" (success: false with a
\* message) or "success" with canvas_state = doc.
LoadResponse(outcome, doc) ==
    /\ loadPending
    /\ loadPending' = FALSE
    /\ IF outcome = "success"
       THEN /\ blocks' = LoadedBlocks(<<>>, doc.blocks)
            /\ connections' = doc.connections
            /\ blockCounter' = 0
            /\ zoom' = OrElse(doc.zoom, Num(1))
            /\ panX' = OrElse(doc.panX, Num(0))
            /\ panY' = OrElse(doc.panY, Num(0))
            /\ currentSessionId' = doc.session_id
            /\ modal' = Detach(modal)
            /\ dragClosures' = DetachAll(dragClosures)
            /\ everIds' = everIds \cup Keys(LoadedBlocks(<<>>, doc.blocks))
       ELSE UNCHANGED <<blocks, connections, blockCounter, viewVars, currentSessionId, modal,
                        dragClosures, everIds>>
    /\ lastCall' = Call("loadResponse", IF outcome = "success" THEN DocumentName(doc) ELSE NoKey)
    /\ undoRun' = 0
    /\ UNCHANGED <<panVars, selectedBlock, histVars, saveRequests, currentLanguage, nullSaves, variant>>

-----------------------------------------------------------------------------
(* export and import *)

\* The graph as the page shows it: per block its type, the place it is
\* drawn at and its properties, and the connections.
StructureOf(blks, conns) ==
    [blocks |-> [i \in 1..Len(blks) |->
                    [type |-> DataType(blks[i].el.bd), x |-> blks[i].el.left, y |-> blks[i].el.top,
                     properties |-> DataProperties(blks[i].el.bd)]],
     connections |-> conns]

\* export(): the data object it returns (metadata.zoom, .panX, .panY flattened).
ExportData(blks, conns, z, px, py) ==
    [blocks |-> ExportedBlocks(blks, z, px, py), connections |-> conns,
     zoom |-> z, panX |-> px, panY |-> py]

\* The forEach of import(): createBlockElement(block) throws on a block
\* without a type (Utils.camelToTitle(undefined)), which ends the import.
ImportableCount(docBlocks) ==
    IF \E i \in 1..Len(docBlocks) : docBlocks[i].type = "undefined"
    THEN (CHOOSE i \in 1..Len(docBlocks) :
              /\ docBlocks[i].type = "undefined"
              /\ \A j \in 1..(i - 1) : docBlocks[j].type /= "undefined") - 1
    ELSE Len(docBlocks)

RECURSIVE ImportedBlocks(_, _, _)
ImportedBlocks(blks, docBlocks, count) ==
    IF count = 0 THEN blks
    ELSE ImportedBlocks(MapSet(blks, Head(docBlocks).id, createBlockElement(Head(docBlocks))),
                        Tail(docBlocks), count - 1)

\* import(data), called as `op`.
Import(lim, data, op) ==
    /\ LET count == ImportableCount(data.blocks)
           done == count = Len(data.blocks)
           blks == ImportedBlocks(<<>>, data.blocks, count)
           conns == IF done THEN data.connections ELSE <<>>
           z == IF done THEN OrElse(data.zoom, Num(1)) ELSE zoom
           px == IF done THEN OrElse(data.panX, Num(0)) ELSE panX
           py == IF done THEN OrElse(data.panY, Num(0)) ELSE panY
           afterClear == PushHistory(history, historyIndex, Snapshot(<<>>, <<>>, zoom, panX, panY))
           afterImport == IF done
                          THEN PushHistory(afterClear.history, afterClear.historyIndex, Snapshot(blks, conns, z, px, py))
                          ELSE afterClear
           pushes == IF done THEN 2 ELSE 1
           sch == scheduleAutoSave(autoSaveTimeout, timers)
       IN  /\ nPush + pushes <= lim
           /\ blocks' = blks
           /\ connections' = conns
           /\ zoom' = z /\ panX' = px /\ panY' = py
           /\ history' = afterImport.history
           /\ historyIndex' = afterImport.historyIndex
           /\ autoSaveTimeout' = sch.autoSaveTimeout
           /\ timers' = sch.timers
           /\ nPush' = nPush + pushes
           /\ burst' = CalledInBurst(burst, pushes)
           /\ everIds' = everIds \cup Keys(blks)
    /\ selectedBlock' = NoSelection
    /\ modal' = Detach(modal)
    /\ dragClosures' = DetachAll(dragClosures)
    /\ lastCall' = CallReturning(op, DocumentName(data),
                                 IF ImportableCount(data.blocks) = Len(data.blocks) THEN "undefined" ELSE "throws")
    /\ undoRun' = 0
    /\ UNCHANGED <<panVars, blockCounter, currentSessionId, saveRequests, loadPending, nullSaves, variant>>

\* canvas.import(data) for canvas data with blocks
ImportDocument(lim, doc) == Import(lim, doc, "import") /\ UNCHANGED currentLanguage

\* canvas.import(canvas.export())
ImportExport(lim) ==
    /\ Import(lim, ExportData(blocks, connections, zoom, panX, panY), "importExport")
    /\ UNCHANGED currentLanguage

\* Project files: complete, without canvas, without language, and with
\* canvas data that has no blocks.
Projects ==
    { [language |-> "python", canvas |-> CHOOSE doc \in SessionDocs : doc.session_id = "s1"],
      [language |-> "python"],
      [canvas |-> CHOOSE doc \in SessionDocs : doc.session_id = "s1"],
      [language |-> "javascript", canvas |-> [session_id |-> "s0"]] }

\* What a project file lacks, as `lastCall` records it.
ProjectDefect(projectData) ==
    IF "canvas" \notin DOMAIN projectData THEN "noCanvas"
    ELSE IF "language" \notin DOMAIN projectData THEN "noLanguage"
    ELSE IF "blocks" \notin DOMAIN projectData.canvas THEN "noBlocks"
    ELSE "complete"

\* app.importProject(projectData); `confirmed` is the answer to the dialog
\* shown when the canvas has blocks.  The file is validated, the language is
\* set, then canvas.import runs, which throws on data without blocks; the
\* error is caught and shown.
ImportProject(lim, projectData, confirmed) ==
    LET defect == ProjectDefect(projectData)
        name == [pfx |-> defect, n |-> 0]
    IN  IF defect \in {"noCanvas", "noLanguage"} \/ (blocks /= <<>> /\ ~confirmed)
        THEN /\ lastCall' = Call("importProject", name)
             /\ undoRun' = 0
             /\ UNCHANGED <<viewVars, panVars, selectedBlock, blocks, connections, blockCounter,
                            histVars, netVars, dragClosures, modal, variant, everIds>>
        ELSE IF defect = "noBlocks"
        THEN /\ currentLanguage' = projectData.language
             /\ lastCall' = Call("importProject", name)
             /\ undoRun' = 0
             /\ UNCHANGED <<viewVars, panVars, selectedBlock, blocks, connections, blockCounter,
                            histVars, currentSessionId, saveRequests, loadPending, nullSaves,
                            dragClosures, modal, variant, everIds>>
        ELSE /\ currentLanguage' = projectData.language
             /\ Import(lim, projectData.canvas, "importProject")

-----------------------------------------------------------------------------
(* The editor of unnamed/part_002.  Its map holds the block objects          *)
(* themselves, so object identity matters: `objs` is the heap of block      *)
(* objects, and the map and the history entries hold indices into it.       *)
(* Each history entry carries the ordinal of the saveState call that        *)
(* pushed it.                                                               *)

VKeys(v) == {v.blocks[i].key : i \in 1..Len(v.blocks)}
VObjectOf(v, key) == v.blocks[CHOOSE i \in 1..Len(v.blocks) : v.blocks[i].key = key].oid

\* Utils.deepClone(Array.from(this.blocks.entries())): a fresh object per block.
VClonedEntries(v) == [i \in 1..Len(v.blocks) |-> [key |-> v.blocks[i].key, oid |-> Len(v.objs) + i]]
VClonedObjects(v) == v.objs \o [i \in 1..Len(v.blocks) |-> v.objs[v.blocks[i].oid]]

\* saveState() of part_002
VSaveState(v) ==
    LET state == [ordinal |-> v.pushes + 1, blocks |-> VClonedEntries(v), connections |-> v.connections,
                  zoom |-> v.zoom, panX |-> v.panX, panY |-> v.panY]
        ph == PushHistory(v.history, v.historyIndex, state)
    IN  [v EXCEPT !.objs = VClonedObjects(v), !.history = ph.history,
                  !.historyIndex = ph.historyIndex, !.pushes = v.pushes + 1]

\* autoConnectNewBlock of part_002: the map holds block objects, whose id and
\* type are the block's own.
VLastBlock(v) ==
    CHOOSE i \in 1..Len(v.blocks) : \A j \in 1..Len(v.blocks) : v.blocks[j].key.n <= v.blocks[i].key.n

VAutoConnect(v, newBlock) ==
    IF Len(v.blocks) = 0 THEN v.connections
    ELSE LET lastBlock == v.objs[v.blocks[VLastBlock(v)].oid]
         IN  IF lastBlock.type = "end" THEN v.connections
             ELSE IF newBlock.type = "start" THEN v.connections
             ELSE Append(v.connections, [from |-> lastBlock.id, to |-> newBlock.id])

\* editBlockProperties(blockId) of part_002: the closure keeps the block object.
VEditBlockProperties(v, blockId) ==
    IF blockId \notin VKeys(v) \/ ~TypeHasInputs(v.objs[VObjectOf(v, blockId)].type) THEN v
    ELSE [v EXCEPT !.modalOpen = TRUE, !.modalObject = VObjectOf(v, blockId)]

VStep(next, op, arg) ==
    /\ variant' = [next EXCEPT !.lastCall = Call(op, arg)]
    /\ UNCHANGED <<zoom, panX, panY, isDragging, dragData, selectedBlock, blocks, connections,
                   blockCounter, history, historyIndex, currentSessionId, autoSaveTimeout,
                   timers, saveRequests, loadPending, currentLanguage, dragClosures, modal,
                   lastCall, nPush, undoRun, everIds, burst, nullSaves>>

VAddBlock(type, position) ==
    /\ variant.blockCounter < MaxBlocks
    /\ variant.pushes < MaxVariantPushes
    /\ LET blockId == BlockId(variant.blockCounter + 1)
           block == NewBlock(blockId, type, SnapToGrid(position.x), SnapToGrid(position.y))
           linked == [variant EXCEPT !.connections = VAutoConnect(variant, block),
                                     !.blockCounter = variant.blockCounter + 1]
           stored == [linked EXCEPT !.objs = Append(linked.objs, block),
                                    !.blocks = Append(linked.blocks, [key |-> blockId, oid |-> Len(linked.objs) + 1])]
           saved == VSaveState(stored)
       IN  VStep(IF TypeHasInputs(type) THEN VEditBlockProperties(saved, blockId) ELSE saved,
                 "addBlock", blockId)

VRemoveBlock(blockId) ==
    IF blockId \notin VKeys(variant)
    THEN VStep(variant, "removeBlock", blockId)
    ELSE /\ variant.pushes < MaxVariantPushes
         /\ VStep(VSaveState([variant EXCEPT
                                !.blocks = SelectSeq(variant.blocks, LAMBDA e : e.key /= blockId),
                                !.connections = removeConnections(variant.connections, blockId)]),
                  "removeBlock", blockId)

\* restoreState(state) of part_002: this.blocks.set(id, block) stores the
\* history entry's own block objects.
VRestoreState(v, idx) ==
    LET state == v.history[idx + 1]
    IN  [v EXCEPT !.blocks = state.blocks, !.connections = state.connections,
                  !.zoom = state.zoom, !.panX = state.panX, !.panY = state.panY,
                  !.historyIndex = idx]

VUndo ==
    VStep(IF variant.historyIndex > 0 THEN VRestoreState(variant, variant.historyIndex - 1) ELSE variant,
          "undo", NoKey)

VRedo ==
    VStep(IF variant.historyIndex < Len(variant.history) - 1
          THEN VRestoreState(variant, variant.historyIndex + 1) ELSE variant,
          "redo", NoKey)

\* mousedown on a block of the map
VBlockMouseDown(key) ==
    /\ key \in VKeys(variant)
    /\ variant.dragging = NoKey
    /\ VStep([variant EXCEPT !.dragging = key], "blockMouseDown", key)

\* The mousemove listener of the dragging closure: block.x, block.y of the
\* object the map holds under the closure's key.
VMouseMove(position) ==
    /\ variant.dragging /= NoKey
    /\ VStep(IF variant.dragging \in VKeys(variant)
             THEN [variant EXCEPT !.objs[VObjectOf(variant, variant.dragging)].x = SnapToGrid(position.x),
                                  !.objs[VObjectOf(variant, variant.dragging)].y = SnapToGrid(position.y)]
             ELSE variant,
             "mouseMove", NoKey)

VMouseUp ==
    /\ variant.dragging /= NoKey
    /\ variant.pushes < MaxVariantPushes
    /\ VStep(VSaveState([variant EXCEPT !.dragging = NoKey]), "mouseUp", NoKey)

\* onSave(newProperties) of the dialog's closure, then modal.close()
VModalSave(newProperties) ==
    /\ variant.modalOpen
    /\ variant.pushes < MaxVariantPushes
    /\ LET o == variant.modalObject
       IN  VStep(VSaveState([variant EXCEPT
                               !.objs[o].properties = MergeProperties(variant.objs[o].properties, newProperties),
                               !.modalOpen = FALSE, !.modalObject = NoObject]),
                 "modalSave", NoKey)

\* What history entry i says: its blocks by value.
VEntryContent(v, i) ==
    [blocks |-> [j \in 1..Len(v.history[i].blocks) |->
                    [key |-> v.history[i].blocks[j].key, block |-> v.objs[v.history[i].blocks[j].oid]]],
     connections |-> v.history[i].connections,
     zoom |-> v.history[i].zoom, panX |-> v.history[i].panX, panY |-> v.history[i].panY]

-----------------------------------------------------------------------------
(* Inputs *)

DropPositions == {[x |-> Num(0), y |-> Num(0)], [x |-> Num(27), y |-> Num(50)]}
ProjectTypes == {"start", "print"}
ProjectPositions == {[x |-> Num(27), y |-> Num(50)]}
RemoveArguments == {BlockId(k) : k \in 1..MaxBlocks} \cup {CanvasId(BlockId(1)), UndefinedId}

(* Specifications *)

BlockKeys == {BlockId(k) : k \in 1..MaxBlocks}

\* addBlock and removeBlock alone
NextGraph ==
    \/ \E type \in Types, position \in DropPositions : AddBlock(MaxPushes, type, position)
    \/ \E blockId \in RemoveArguments : RemoveBlock(MaxPushes, blockId)

SpecGraph == Init /\ [][NextGraph]_vars

\* Committed mutations, undo and redo, drags and the properties dialog
NextEdit ==
    \/ \E type \in Types, position \in DropPositions : AddBlock(EditPushes, type, position)
    \/ \E blockId \in BlockKeys : RemoveBlock(EditPushes, blockId)
    \/ Clear(EditPushes)
    \/ Undo
    \/ Redo
    \/ \E key \in BlockKeys : BlockMouseDown(key)
    \/ \E position \in DropPositions : MouseMove(position, position)
    \/ MouseUp(EditPushes)
    \/ \E key \in BlockKeys : OpenProperties(key)
    \/ \E newProperties \in PropertySets : ModalSave(EditPushes, newProperties)
    \/ ModalClose

SpecEdit == Init /\ [][NextEdit]_vars

\* saveState, undo and redo up to and past the history's capacity
CapPushes == maxHistorySize + 2

NextHistoryCap ==
    \/ SaveState(CapPushes)
    \/ Undo
    \/ Redo

SpecHistoryCap == Init /\ [][NextHistoryCap]_vars

\* The same with a zoom button pressed before every saveState, so that
\* neighbouring history entries differ
ZoomOps == {"zoomIn", "resetZoom"}

NextEviction ==
    \/ lastCall.op \in ZoomOps /\ SaveState(CapPushes)
    \/ lastCall.op \notin ZoomOps /\ zoom = Num(1) /\ ZoomIn
    \/ lastCall.op \notin ZoomOps /\ zoom /= Num(1) /\ ResetZoom
    \/ lastCall.op \notin ZoomOps /\ Undo

SpecEviction == Init /\ [][NextEviction]_vars

\* saveState calls in time.  A timer's callback runs when the timer is due,
\* before time goes on and before a later call.
NextAutosave ==
    \/ ~TimerDue /\ SaveState(MaxPushes)
    \/ ~TimerDue /\ \E type \in Types, position \in ProjectPositions : AddBlock(MaxPushes, type, position)
    \/ Tick
    \/ TimerFire

SpecAutosave == Init /\ [][NextAutosave]_vars

\* A session: the load request's response, edits, imported documents
Outcomes == {"notFound", "error", "message", "success"}

NextSession ==
    \/ \E outcome \in Outcomes, doc \in SessionDocs : LoadResponse(outcome, doc)
    \/ \E type \in Types, position \in DropPositions : AddBlock(ProjectPushes, type, position)
    \/ \E blockId \in BlockKeys : RemoveBlock(ProjectPushes, blockId)
    \/ Clear(ProjectPushes)
    \/ Undo
    \/ Redo
    \/ \E doc \in SessionDocs : ImportDocument(ProjectPushes, doc)

SpecSession == Init /\ [][NextSession]_vars

\* export and import under pan and zoom
NextProject ==
    \/ \E type \in ProjectTypes, position \in ProjectPositions : AddBlock(ProjectPushes, type, position)
    \/ \E client \in DropPositions : CanvasMouseDown(client)
    \/ \E client \in DropPositions : MouseMove(client, client)
    \/ MouseUp(ProjectPushes)
    \/ ZoomIn
    \/ ResetZoom
    \/ ImportExport(ProjectPushes)

SpecProject == Init /\ [][NextProject]_vars

\* Documents of any content, loaded and imported
NextDocuments ==
    \/ \E outcome \in Outcomes, doc \in Documents : LoadResponse(outcome, doc)
    \/ \E doc \in Documents : ImportDocument(ProjectPushes, doc)
    \/ \E type \in ProjectTypes, position \in ProjectPositions : AddBlock(ProjectPushes, type, position)
    \/ Undo
    \/ Redo

SpecDocuments == Init /\ [][NextDocuments]_vars

\* The committed mutations: insertion, deletion, property save, clear-all
NextCommit ==
    \/ \E type \in ProjectTypes, position \in ProjectPositions : AddBlock(ProjectPushes, type, position)
    \/ \E blockId \in BlockKeys : RemoveBlock(ProjectPushes, blockId)
    \/ Clear(ProjectPushes)
    \/ \E key \in BlockKeys : OpenProperties(key)
    \/ \E newProperties \in PropertySets : ModalSave(ProjectPushes, newProperties)
    \/ ZoomIn

SpecCommit == Init /\ [][NextCommit]_vars

\* The calls that take a block id, with ids in and not in the store
NextCalls ==
    \/ \E type \in ProjectTypes, position \in ProjectPositions : AddBlock(ProjectPushes, type, position)
    \/ \E blockId \in RemoveArguments : RemoveBlock(ProjectPushes, blockId)
    \/ \E blockId \in RemoveArguments : EditBlockProperties(blockId)
    \/ \E blockId \in RemoveArguments : DuplicateBlock(ProjectPushes, blockId)
    \/ \E newProperties \in PropertySets : ModalSave(ProjectPushes, newProperties)
    \/ Undo

SpecCalls == Init /\ [][NextCalls]_vars

\* The properties dialog: opened, saved, and left open over an undo
NextDialog ==
    \/ \E type \in ProjectTypes, position \in ProjectPositions : AddBlock(MaxPushes, type, position)
    \/ \E key \in BlockKeys : OpenProperties(key)
    \/ \E newProperties \in PropertySets : ModalSave(MaxPushes, newProperties)
    \/ ModalClose
    \/ Undo

SpecDialog == Init /\ [][NextDialog]_vars

\* Project files of any shape, imported into an empty or a filled canvas
NextImport ==
    \/ \E type \in ProjectTypes, position \in ProjectPositions : AddBlock(ProjectPushes, type, position)
    \/ \E projectData \in Projects, confirmed \in BOOLEAN : ImportProject(ProjectPushes, projectData, confirmed)
    \/ Undo
    \/ Redo

SpecImport == Init /\ [][NextImport]_vars

\* Autosave against the backend: timers fire, requests are answered in any
\* order, with success or failure.  Time passes, due timers fire and sent
\* requests are answered; the user is free to stop editing.
SaveResults == {"fail"} \cup NewSessionIds

NextSave ==
    \/ ~TimerDue /\ SaveState(EditPushes)
    \/ Tick
    \/ TimerFire
    \/ \E i \in 1..EditPushes, result \in SaveResults : SaveResponse(i, result)
    \/ \E outcome \in Outcomes, doc \in SessionDocs : ~TimerDue /\ LoadResponse(outcome, doc)

SpecSave ==
    /\ Init /\ [][NextSave]_vars
    /\ WF_vars(Tick)
    /\ WF_vars(TimerFire)
    /\ WF_vars(\E i \in 1..EditPushes, result \in SaveResults : SaveResponse(i, result))

\* The chain of connections under addBlock, removeBlock, duplicateBlock, undo
\* and redo
NextChain ==
    \/ \E type \in ProjectTypes, position \in ProjectPositions : AddBlock(MaxPushes, type, position)
    \/ \E blockId \in BlockKeys : RemoveBlock(MaxPushes, blockId)
    \/ \E blockId \in BlockKeys : DuplicateBlock(MaxPushes, blockId)
    \/ Undo
    \/ Redo

SpecChain == Init /\ [][NextChain]_vars

\* Selection and the Delete key
NextKeys ==
    \/ \E type \in ProjectTypes, position \in DropPositions : AddBlock(ProjectPushes, type, position)
    \/ \E key \in BlockKeys : BlockMouseDown(key)
    \/ MouseUp(ProjectPushes)
    \/ \E client \in ProjectPositions : CanvasMouseDown(client)
    \/ DeleteKey(ProjectPushes)

SpecKeys == Init /\ [][NextKeys]_vars

\* Drags of blocks that were added and of blocks a session load built
NextDrag ==
    \/ \E outcome \in Outcomes, doc \in SessionDocs : LoadResponse(outcome, doc)
    \/ \E type \in ProjectTypes, position \in ProjectPositions : AddBlock(EditPushes, type, position)
    \/ \E key \in BlockKeys : BlockMouseDown(key)
    \/ \E position \in DropPositions : MouseMove(position, position)
    \/ MouseUp(EditPushes)
    \/ Undo
    \/ Redo

SpecDrag == Init /\ [][NextDrag]_vars

\* The viewport: wheel, buttons, undo and redo, documents
WheelDeltas == {-100, 100}
ViewPushes == 2
ViewDocuments == {doc \in Documents : doc.session_id \in {"s1", "s3"}}

NextView ==
    \/ \E deltaY \in WheelDeltas, mouse \in ProjectPositions : Wheel(deltaY, mouse)
    \/ ZoomIn
    \/ ZoomOut
    \/ ResetZoom
    \/ Undo
    \/ Redo
    \/ \E outcome \in Outcomes, doc \in ViewDocuments : LoadResponse(outcome, doc)
    \/ \E doc \in ViewDocuments : ImportDocument(ViewPushes, doc)

SpecView == Init /\ [][NextView]_vars

\* The viewport under wheel steps, buttons, undo, and the load and import of
\* session documents, one of which stores no zoom
PanPrecision == 10    \* a wheel step is taken while the pan's denominator is at most PanPrecision

NextViewport ==
    \/ \E deltaY \in WheelDeltas, mouse \in ProjectPositions :
          Wheel(deltaY, mouse) /\ panX'.d <= PanPrecision /\ panY'.d <= PanPrecision
    \/ ZoomIn
    \/ ZoomOut
    \/ ResetZoom
    \/ Undo
    \/ \E outcome \in Outcomes, doc \in SessionDocs : LoadResponse(outcome, doc)
    \/ \E doc \in SessionDocs : ImportDocument(ViewPushes, doc)

SpecViewport == Init /\ [][NextViewport]_vars

\* The wheel at the zoom limits: sessions stored at zoom 3 and at zoom 0.1
LimitDocs ==
    { [session_id |-> "s5", blocks |-> <<DocBlock(1, "start", 0, 0)>>, connections |-> <<>>,
       zoom |-> Num(3), panX |-> Num(0), panY |-> Num(20)],
      [session_id |-> "s6", blocks |-> <<DocBlock(1, "start", 0, 0)>>, connections |-> <<>>,
       zoom |-> Rat(1, 10), panX |-> Num(40), panY |-> Num(0)] }

NextWheel ==
    \/ \E deltaY \in WheelDeltas, mouse \in DropPositions :
          /\ zoom.d <= PanPrecision
          /\ Wheel(deltaY, mouse)
          /\ panX'.d <= PanPrecision /\ panY'.d <= PanPrecision
    \/ ZoomIn
    \/ ZoomOut
    \/ ResetZoom
    \/ \E outcome \in Outcomes, doc \in SessionDocs \cup LimitDocs : LoadResponse(outcome, doc)

SpecWheel == Init /\ [][NextWheel]_vars

\* The editor of unnamed/part_002: blocks, drags, property saves, undo, redo
NextVariant ==
    \/ \E type \in Types, position \in DropPositions : VAddBlock(type, position)
    \/ \E blockId \in BlockKeys : VRemoveBlock(blockId)
    \/ VUndo
    \/ VRedo
    \/ \E key \in BlockKeys : VBlockMouseDown(key)
    \/ \E position \in DropPositions : VMouseMove(position)
    \/ VMouseUp
    \/ \E newProperties \in PropertySets : VModalSave(newProperties)

SpecVariant == Init /\ [][NextVariant]_vars

-----------------------------------------------------------------------------
(* Claims *)

\* C1: after any sequence of addBlock and removeBlock calls every connection's
\* from and to are keys of the blocks map (no dangling connection).
C1_NoDanglingConnection ==
    \A i \in 1..Len(connections) :
        connections[i].from \in Keys(blocks) /\ connections[i].to \in Keys(blocks)

\* The graph the code reads from the live state: per key the block's id,
\* type, position and properties as blockData gives them, and the connections.
GraphOf(entries, conns) ==
    [blocks |-> [i \in 1..Len(entries) |->
                    [key |-> entries[i].key, id |-> DataId(entries[i].val), type |-> DataType(entries[i].val),
                     x |-> DataX(entries[i].val), y |-> DataY(entries[i].val),
                     properties |-> DataProperties(entries[i].val)]],
     connections |-> conns]

LiveGraph == GraphOf([i \in 1..Len(blocks) |-> [key |-> blocks[i].key, val |-> blocks[i].el.bd]], connections)

\* The graph a snapshot captured: the blockData each cloned element carries.
CapturedData(val) == [core |-> val.core, wraps |-> SubSeq(val.wraps, 1, Len(val.wraps) - 1)]
CapturedGraph(state) ==
    GraphOf([i \in 1..Len(state.blocks) |-> [key |-> state.blocks[i].key, val |-> CapturedData(state.blocks[i].val)]],
            state.connections)

\* C2: after K committed mutations on a fresh editor (1 <= K <= 50), K-1
\* consecutive undo calls leave the live graph (ids, types, positions,
\* properties, connections) deep-equal to the state the first push captured.
C2_UndoReturnsToFirstPush ==
    (/\ nPush >= 1 /\ nPush <= maxHistorySize
     /\ Len(history) = nPush
     /\ undoRun = nPush - 1
     /\ lastCall.op = "undo" \/ (nPush = 1 /\ lastCall.op = "addBlock"))
        => LiveGraph = CapturedGraph(history[1])

\* C3: in both editors a snapshot pushed to the history never changes
\* afterwards: as long as an entry stays in the history, what it says (its
\* blocks by value, its connections, its viewport) is what it said when it was
\* pushed.  Stated on the editor of unnamed/part_002.
C3_SnapshotNeverChanges ==
    [][\A i \in 1..Len(variant.history) :
          (i <= Len(variant'.history) /\ variant'.history[i].ordinal = variant.history[i].ordinal)
              => VEntryContent(variant', i) = VEntryContent(variant, i)]_vars

\* C3: a block restored by undo or redo is dragged while the map holds the
\* history entry's own object.
C3_Witness ==
    /\ variant.lastCall.op = "mouseMove"
    /\ variant.historyIndex >= 0
    /\ \E j \in 1..Len(variant.blocks) :
          /\ variant.blocks[j].key = variant.dragging
          /\ variant.blocks[j] \in {variant.history[variant.historyIndex + 1].blocks[k] :
                                       k \in 1..Len(variant.history[variant.historyIndex + 1].blocks)}

C5_LinearChain ==
    (/\ blockCounter = 4 /\ nPush = 4 /\ Len(blocks) = 4
     /\ DataType(blocks[1].el.bd) = "start"
     /\ DataType(blocks[2].el.bd) \notin {"start", "end"}
     /\ DataType(blocks[3].el.bd) \notin {"start", "end"}
     /\ DataType(blocks[4].el.bd) = "end")
        => connections = <<[from |-> blocks[1].key, to |-> blocks[2].key],
                           [from |-> blocks[2].key, to |-> blocks[3].key],
                           [from |-> blocks[3].key, to |-> blocks[4].key]>>

\* C6: the id addBlock assigns is the id of no block that is or ever was in
\* the store, also after clear, undo/redo, import and a session load.
C6_IdsNeverReused ==
    [][(lastCall'.op = "addBlock" /\ nPush' = nPush + 1) => lastCall'.arg \notin everIds]_vars

\* C7: immediately after any saveState, historyIndex = history.length - 1 (so
\* redo changes nothing): a push after undos discards the entries beyond the
\* cursor.
C7_PushLeavesCursorLast ==
    [][nPush' > nPush => historyIndex' = Len(history') - 1]_vars

\* C7: a push was made after an undo, and the redo branch is gone.
C7_Witness ==
    /\ lastCall.op = "saveState"
    /\ Len(history) < maxHistorySize
    /\ nPush > Len(history) + 1
    /\ historyIndex = Len(history) - 1

\* C8: in every reachable state -1 <= historyIndex <= history.length - 1 and
\* history.length <= maxHistorySize.
C8_HistoryBounds ==
    /\ -1 <= historyIndex
    /\ historyIndex <= Len(history) - 1
    /\ Len(history) <= maxHistorySize

\* C8: more snapshots were pushed than the history holds, and the cursor was
\* moved back.
C8_Witness ==
    /\ nPush > maxHistorySize
    /\ Len(history) = maxHistorySize
    /\ historyIndex < Len(history) - 1

\* C9: removeBlock with an id that is not in the store leaves blocks,
\* connections, selection, history and historyIndex unchanged and schedules
\* no autosave.
C9_RemoveUnknownChangesNothing ==
    [][(lastCall'.op = "removeBlock" /\ lastCall'.arg \notin Keys(blocks))
        => UNCHANGED <<blocks, connections, selectedBlock, history, historyIndex,
                       autoSaveTimeout, timers>>]_vars

\* C9: an id that was in the store is removed a second time, from a store
\* that holds blocks and connections.
C9_Witness ==
    /\ lastCall.op = "removeBlock"
    /\ lastCall.arg \notin Keys(blocks)
    /\ lastCall.arg \in everIds
    /\ Len(blocks) > 0 /\ Len(connections) > 0

\* C10: import(export()) taken on a graph X rebuilds a graph structurally
\* equal to X (types, positions, properties, connections), whatever the
\* viewport at the export.
C10_ImportOfExportIsEqual ==
    [][lastCall'.op = "importExport"
        => StructureOf(blocks', connections') = StructureOf(blocks, connections)]_vars

\* C11: when the block inserted last among those in the store has type end,
\* addBlock of any type creates no connection.
C11_NoConnectionAfterEnd ==
    [][(/\ lastCall'.op = "addBlock"
        /\ blocks /= <<>>
        /\ DataType(blocks[Len(blocks)].el.bd) = "end")
        => connections' = connections]_vars

\* C12: whenever addBlock creates a connection, its source is the block
\* inserted last among the blocks in the store, however those got there
\* (added, restored by undo/redo, imported, loaded from a session).  The
\* source may name that block by its key or by its element id.
C12_SourceIsLastInserted ==
    [][(/\ lastCall'.op = "addBlock"
        /\ Len(connections') = Len(connections) + 1)
        => connections'[Len(connections')].from
              \in {blocks[Len(blocks)].key, CanvasId(blocks[Len(blocks)].key)}]_vars

\* C13: after canvas.import or a session load of any document (also one
\* whose connections name absent ids, or from which a block was skipped),
\* every connection in the store references two blocks in the store.
C13_LoadedConnectionsResolve ==
    lastCall.op \in {"import", "loadResponse"}
        => \A i \in 1..Len(connections) :
              connections[i].from \in Keys(blocks) /\ connections[i].to \in Keys(blocks)

\* The document a call was recorded under.
DocumentNamed(name) == CHOOSE doc \in Documents : DocumentName(doc) = name

\* C14: when import or a session load processes a document in which
\* reconstructing one block fails, only that block is skipped: every other
\* block of the document (here: every block of a type the catalogue knows)
\* ends up in the store.
C14_OnlyFailingBlockSkipped ==
    (lastCall.op \in {"import", "loadResponse"} /\ lastCall.arg /= NoKey)
        => LET doc == DocumentNamed(lastCall.arg)
           IN  \A i \in 1..Len(doc.blocks) :
                  doc.blocks[i].type \in Types => doc.blocks[i].id \in Keys(blocks)

\* The number of blocks the pointer went down on and holds.
HeldBlocks ==
    Cardinality(dragClosures) + (IF isDragging /\ dragData.type = "block" THEN 1 ELSE 0)

\* C15: for every block in the store, however it was created, a drag
\* (pointer down on the block, moves, release) pushes exactly one history
\* entry, at the release, and none during the moves.
C15_DragPushesOnceAtRelease ==
    [][/\ (lastCall'.op = "mouseUp" /\ HeldBlocks = 1) => nPush' = nPush + 1
       /\ lastCall'.op = "mouseMove" => nPush' = nPush]_vars

\* A number that is an integer multiple of the grid unit.
OnGrid(v) == ~IsUndef(v) /\ v.d = 1 /\ v.n % GridUnit = 0

\* C16: every block's stored x and y are integer multiples of 20 after
\* addBlock, drags, undo/redo, import and session load.
C16_StoredPositionsOnGrid ==
    \A i \in 1..Len(blocks) : OnGrid(DataX(blocks[i].el.bd)) /\ OnGrid(DataY(blocks[i].el.bd))

\* C17: zoom stays within [0.1, 3] after any sequence of wheel zooms, zoomIn,
\* zoomOut, resetZoom, undo/redo, canvas.import and session load.
C17_ZoomWithinLimits ==
    ~RLess(zoom, Rat(1, 10)) /\ ~RLess(Num(3), zoom)

C19_CommitPushesOneSnapshot ==
    [][(\/ lastCall'.op \in {"addBlock", "onSave", "clear"}
        \/ lastCall'.op = "removeBlock" /\ lastCall'.arg \in Keys(blocks))
        => /\ nPush' = nPush + 1
           /\ history' /= <<>>
           /\ historyIndex' = Len(history') - 1
           /\ Len(history') <= Len(history) + 1
           /\ CapturedGraph(history'[Len(history')]) = LiveGraph'
           /\ history'[Len(history')].zoom = zoom'
           /\ history'[Len(history')].panX = panX'
           /\ history'[Len(history')].panY = panY'
           /\ autoSaveTimeout' = "set"
           /\ timers' = <<autoSaveDelay>>]_vars

\* C19: a property save was committed on a graph with a connection, under a
\* zoom other than 1.
C19_Witness ==
    /\ lastCall.op = "onSave"
    /\ Len(connections) >= 1
    /\ zoom /= Num(1)
    /\ \E i \in 1..Len(blocks) : DataProperties(blocks[i].el.bd) /= NoProperties

\* C20: removeBlock, editBlockProperties and duplicateBlock, called with an
\* id that is not in the store, report a NotFound failure to their caller
\* (a return value or an error by which the call differs from a successful
\* one, which returns undefined).
C20_UnknownIdIsReported ==
    [][(/\ lastCall'.op \in {"removeBlock", "editBlockProperties", "duplicateBlock"}
        /\ lastCall'.arg \notin Keys(blocks))
        => lastCall'.ret /= "undefined"]_vars

\* C21: duplicateBlock(id) for an id in the store adds exactly one block,
\* under a new id, with the original's type, at the original's current
\* position offset by (40, 40) and with properties equal to the original's,
\* and returns the new id.
C21_DuplicateIsOffsetCopy ==
    [][(lastCall'.op = "duplicateBlock" /\ lastCall'.arg \in Keys(blocks))
        => LET original == Get(blocks, lastCall'.arg)
           IN  /\ Len(blocks') = Len(blocks) + 1
               /\ \A i \in 1..Len(blocks) : blocks'[i] = blocks[i]
               /\ blocks'[Len(blocks')].key \notin Keys(blocks)
               /\ DataType(blocks'[Len(blocks')].el.bd) = DataType(original.bd)
               /\ blocks'[Len(blocks')].el.left = RAdd(original.left, Num(40))
               /\ blocks'[Len(blocks')].el.top = RAdd(original.top, Num(40))
               /\ DataProperties(blocks'[Len(blocks')].el.bd) = DataProperties(original.bd)
               /\ lastCall'.ret = "id"]_vars

\* C22: importing a document that lacks a required top-level field (a
\* project file without canvas or language, or canvas data without blocks)
\* leaves blocks, connections, viewport, history and the selected language
\* exactly as they were before the import.
C22_RejectedImportChangesNothing ==
    [][(lastCall'.op = "importProject" /\ lastCall'.arg.pfx \in {"noCanvas", "noLanguage", "noBlocks"})
        => UNCHANGED <<blocks, connections, zoom, panX, panY, history, historyIndex, currentLanguage>>]_vars

\* C23: a failed load (404, another HTTP error, a network error or a
\* response with success = false) leaves blocks, connections, viewport,
\* history and currentSessionId unchanged.
C23_FailedLoadChangesNothing ==
    [][(lastCall'.op = "loadResponse" /\ lastCall'.arg = NoKey)
        => UNCHANGED <<blocks, connections, zoom, panX, panY, history, historyIndex,
                       currentSessionId>>]_vars

\* C23: the load failed after the user had added blocks.
C23_Witness ==
    /\ lastCall.op = "loadResponse"
    /\ lastCall.arg = NoKey
    /\ ~loadPending
    /\ Len(blocks) >= 2 /\ Len(connections) >= 1 /\ Len(history) >= 2

\* C24: after a saveToJSON attempt fails (HTTP error, network error or
\* success = false) a further saveToJSON attempt is eventually made.
C24_FailedSaveIsRetried ==
    (lastCall.op = "saveResponse" /\ lastCall.arg.pfx = "fail") ~> (lastCall.op = "saveToJSON")

\* C27: in every interleaving of timer firings, the load response and save
\* responses, at most one successfully answered save request was sent with
\* session_id null.
C27_OneSessionCreated == nullSaves <= 1

\* C25: in every reachable viewport state the zoom is a number other than 0,
\* and a screen point mapped to canvas space as (p - pan) / zoom and back as
\* c * zoom + pan is the point it started as.
ScreenPoints == {Num(0), Num(27), Num(50), Num(-13)}

C26_LoadKeepsUserWork ==
    [][lastCall'.op = "loadResponse" =>
        /\ \A key \in Keys(blocks) : key \in Keys(blocks') /\ Get(blocks', key) = Get(blocks, key)
        /\ \A i \in DOMAIN connections : \E j \in DOMAIN connections' : connections'[j] = connections[i]]_vars

\* C28: a property save lands on the block the store holds under the
\* dialog's id: after onSave, that block carries the saved values.
C28_SaveLandsOnStoredBlock ==
    [][(lastCall'.op = "onSave" /\ modal.key \in Keys(blocks)) =>
        /\ modal.key \in Keys(blocks')
        /\ \E newProperties \in PropertySets :
              LET saved == Get(blocks', modal.key).bd.core.properties
              IN  \A name \in DOMAIN newProperties :
                      name \in DOMAIN saved /\ saved[name] = newProperties[name]]_vars

\* C29: a committed mutation is undone by one undo, the first mutation of a
\* session included: after exactly one committed mutation on a fresh editor,
\* one undo leaves the graph as it was before, empty.
C29_FirstMutationIsUndone ==
    (nPush = 1 /\ lastCall.op = "undo" /\ undoRun = 1) => (blocks = <<>> /\ connections = <<>>)

\* C30: after duplicateBlock completes, the history entry at the cursor
\* records the duplicate with the properties the live duplicate has.
C30_DuplicateIsRecordedWithProperties ==
    [][(lastCall'.op = "duplicateBlock" /\ Len(blocks') = Len(blocks) + 1) =>
        LET key == blocks'[Len(blocks')].key
            entry == history'[historyIndex' + 1]
        IN  \E i \in DOMAIN entry.blocks :
                /\ entry.blocks[i].key = key
                /\ DataProperties(CapturedData(entry.blocks[i].val))
                       = DataProperties(Get(blocks', key).bd)]_vars

\* C31: restoreFromJSONState applied to the document saveToJSON serializes
\* for the live graph yields a store with the same block ids, types, stored
\* positions and properties, and the same connections.
SavedDocument == SaveRequest(currentSessionId, blocks, connections, zoom, panX, panY)

RestoredFromSave ==
    LET loaded == LoadedBlocks(<<>>, SavedDocument.blocks)
    IN  GraphOf([i \in 1..Len(loaded) |-> [key |-> loaded[i].key, val |-> loaded[i].el.bd]],
                SavedDocument.connections)

C31_SaveLoadRoundTrip == RestoredFromSave = LiveGraph

\* C32: Delete or Backspace pressed while a block is selected removes that
\* block from the store together with every connection naming it, and pushes
\* one history entry.
C32_DeleteKeyRemovesSelected ==
    [][(selectedBlock /= NoSelection /\ selectedBlock.dataId \in Keys(blocks)
        /\ lastCall'.op = "removeBlock" /\ lastCall'.arg = selectedBlock.domId) =>
        /\ selectedBlock.dataId \notin Keys(blocks')
        /\ connections' = removeConnections(connections, selectedBlock.dataId)
        /\ nPush' = nPush + 1]_vars

\* C33: a push made when history holds maxHistorySize entries and the cursor
\* is on the last of them evicts exactly the oldest entry: afterwards history
\* has maxHistorySize entries, each entry but the last is the former next
\* entry, the last is the new snapshot, and historyIndex names it.
EvictsOldest ==
    /\ Len(history') = maxHistorySize
    /\ \A i \in 1..(maxHistorySize - 1) : history'[i] = history[i + 1]
    /\ history'[maxHistorySize] = Snapshot(blocks', connections', zoom', panX', panY')
    /\ historyIndex' = maxHistorySize - 1

C33_PushAtCapacityEvictsOldest ==
    [][(lastCall'.op = "saveState" /\ Len(history) = maxHistorySize /\ historyIndex = maxHistorySize - 1)
        => EvictsOldest]_vars

C33_Witness ==
    /\ lastCall.op = "saveState" /\ nPush = maxHistorySize + 1
    /\ Len(history) = maxHistorySize /\ historyIndex = maxHistorySize - 1
    /\ history[1].zoom = Num(1) /\ history[2].zoom /= Num(1)

\* C33 as stated, for a push at any cursor position.
C33_PushAtFiftyEntriesEvictsOldest ==
    [][(lastCall'.op = "saveState" /\ Len(history) = maxHistorySize) => EvictsOldest]_vars

\* C34: undo with historyIndex <= 0 and redo with historyIndex on the last
\* entry change nothing: blocks, connections, zoom, pan, history and
\* historyIndex stay as they are and no autosave is scheduled.
C34_UndoRedoAtEndsChangeNothing ==
    [][(\/ lastCall'.op = "undo" /\ historyIndex <= 0
        \/ lastCall'.op = "redo" /\ historyIndex = Len(history) - 1)
        => UNCHANGED <<blocks, connections, zoom, panX, panY, history, historyIndex,
                       autoSaveTimeout, timers, saveRequests>>]_vars

C34_Witness ==
    /\ lastCall.op = "undo" /\ undoRun = 2
    /\ Len(history) = 2 /\ historyIndex = 0
    /\ Len(blocks) >= 1

\* C35: a pointer move during a block drag sets the dragged block's stored
\* position (the x, y of its block data) to the snapped position the block is
\* drawn at, and changes neither its type or properties, nor the connections,
\* the other blocks or the history.
C35_DragMoveSetsStoredPosition ==
    [][lastCall'.op = "mouseMove" =>
        /\ \A c \in dragClosures :
              (c.attached /\ c.key \in Keys(blocks)) =>
                  LET before == Get(blocks, c.key)
                      after == Get(blocks', c.key)
                  IN  /\ DataX(after.bd) = after.left /\ DataY(after.bd) = after.top
                      /\ DataType(after.bd) = DataType(before.bd)
                      /\ DataProperties(after.bd) = DataProperties(before.bd)
        /\ \A key \in Keys(blocks) :
              (\A c \in dragClosures : c.key /= key) => Get(blocks', key) = Get(blocks, key)
        /\ UNCHANGED <<connections, history, historyIndex>>]_vars

\* C36: at most one drag, canvas pan or block drag, is active at any time,
\* and after the pointer release none is.
ActiveDrags == Cardinality(dragClosures) + (IF isDragging THEN 1 ELSE 0)

C36_OneDragAtATime ==
    /\ ActiveDrags <= 1
    /\ lastCall.op = "mouseUp" => ActiveDrags = 0

\* C37: after any sequence of addBlock, removeBlock, duplicateBlock, undo and
\* redo the connections are unbranching: no two connections have the same
\* source and no two have the same target.
C37_ConnectionsUnbranching ==
    \A i, j \in DOMAIN connections :
        i /= j => (connections[i].from /= connections[j].from /\ connections[i].to /= connections[j].to)

\* C38: a wheel zoom at screen point m keeps the canvas point under m fixed:
\* (m - pan') / zoom' = (m - pan) / zoom on both axes; when the clamped new
\* zoom equals the current zoom, zoom and pan are left unchanged.
C38_WheelKeepsPointUnderMouse ==
    [][lastCall'.op = "onCanvasWheel" =>
        LET m == lastCall'.arg
        IN  /\ zoom' \in {WheelZoom(zoom, deltaY) : deltaY \in WheelDeltas}
            /\ IF zoom' = zoom
               THEN UNCHANGED <<panX, panY>>
               ELSE /\ ScreenToCanvas(m.x, panX', zoom') = ScreenToCanvas(m.x, panX, zoom)
                    /\ ScreenToCanvas(m.y, panY', zoom') = ScreenToCanvas(m.y, panY, zoom)
                    /\ ~IsUndef(ScreenToCanvas(m.x, panX, zoom))]_vars

C38_Witness ==
    /\ lastCall.op = "onCanvasWheel" /\ lastCall.arg = [x |-> Num(27), y |-> Num(50)]
    /\ zoom = Rat(27, 10) /\ panX = Rat(27, 10) /\ panY = Num(23)

\* C39: addBlock creates no connection when the store is empty, and none when
\* the new block's type is start and the store is non-empty: over such a call
\* the connection list is unchanged.
C39_NoLinkForFirstOrStartBlock ==
    [][(/\ lastCall'.op = "addBlock"
        /\ lastCall'.arg \in Keys(blocks')
        /\ \/ blocks = <<>>
           \/ DataType(Get(blocks', lastCall'.arg).bd) = "start")
          => connections' = connections]_vars

\* A start block was added to a store holding a start and a print block, and
\* the one connection is the one between those two.
C39_Witness ==
    /\ lastCall.op = "addBlock"
    /\ Len(blocks) = 3
    /\ lastCall.arg = blocks[3].key
    /\ DataType(blocks[1].el.bd) = "start"
    /\ DataType(blocks[2].el.bd) = "print"
    /\ DataType(blocks[3].el.bd) = "start"
    /\ Len(connections) = 1
    /\ connections[1].to = blocks[2].key

\* C40: a property save through the dialog's onSave callback merges: on the
\* block the dialog holds, each saved key has its new value and every other
\* existing key keeps its old value; no other block of the store and no
\* connection changes.  (A dialog whose block is no longer the store's block
\* changes nothing in the store.)
C40_SaveMergesProperties ==
    [][lastCall'.op = "onSave" =>
        /\ connections' = connections
        /\ Len(blocks') = Len(blocks)
        /\ \A i \in DOMAIN blocks :
               /\ blocks'[i].key = blocks[i].key
               /\ (blocks[i].key /= modal.key \/ ~modal.attached) => blocks'[i] = blocks[i]
        /\ (modal.attached /\ modal.key \in Keys(blocks)) =>
               LET before == Get(blocks, modal.key)
                   after == Get(blocks', modal.key)
                   old == DataProperties(before.bd)
                   new == DataProperties(after.bd)
               IN  /\ \E newProperties \in PropertySets :
                         /\ DOMAIN new = DOMAIN old \cup DOMAIN newProperties
                         /\ \A name \in DOMAIN newProperties : new[name] = newProperties[name]
                         /\ \A name \in DOMAIN old \ DOMAIN newProperties : new[name] = old[name]
                   /\ [after EXCEPT !.bd.core.properties = old] = before]_vars

\* A second save of {label: "a"} on a block saved before with
\* {label: "b", value: "1"}: label is replaced and value is kept, next to a
\* second block and a connection.
C40_Witness ==
    /\ lastCall.op = "onSave"
    /\ lastCall.arg \in Keys(blocks)
    /\ DataProperties(Get(blocks, lastCall.arg).bd) = [label |-> "a", value |-> "1"]
    /\ Len(blocks) >= 2
    /\ Len(connections) >= 1

====
